---- MODULE Spec2Model ----
(***************************************************************************)
(* BioModels pipeline: build_graph (pipeline/build_graph.py), the          *)
(* compartment name resolver _get_name / _get_go_id and the three tuple    *)
(* generators (pipeline/parsers.py).                                       *)
(*                                                                         *)
(* A Python dict is a function from keys (strings) to values (strings).    *)
(* A dict object lives in `heap` under its object id, so that two tuples   *)
(* can hold the very same dict.  A Python str that the code inspects       *)
(* character by character (the compartment names) is a sequence of         *)
(* character codes.                                                        *)
(***************************************************************************)
EXTENDS Integers, Sequences, FiniteSets, TLC

VARIABLES
    g,        \* build_graph: the DiGraph under construction [node, edge]
    gPrev,    \* history: g as it was before the last loop iteration
    heap,     \* the descriptor dicts, by object id (their current content)
    init,     \* history: each descriptor's content when it was first yielded
    log,      \* history: the tuples build_graph has pulled, <<child id, label, parent id>>
    pc,       \* build_graph: "loop" | "returned" | "KeyError" | "idle"
    call,     \* _get_name: the arguments of the call, [tag, refs, lookup]
    result,   \* _get_name: <<>> while the call runs, then <<its outcome>>
    doc,      \* the generators: the document and arguments of the parser call
    gen,      \* the generator object: [pc, i, frame]
    queue,    \* the tuples the generator has yielded and build_graph has not pulled
    sched     \* history: the order in which generator and build_graph ran

vars == <<g, gPrev, heap, init, log, pc, call, result, doc, gen, queue, sched>>
buildVars == <<g, gPrev, heap, init, log, pc>>
resolverVars == <<call, result>>
pipeVars == <<doc, gen, queue, sched>>

(***************************************************************************)
(* Bounds and input pools.                                                 *)
(***************************************************************************)
MaxLen == 3

Labels == {"isPartOf", "isDerivedFrom"}

\* The descriptors an iterable may yield: two of one name that share a key
\* with different values and differ in another key, one of a second name,
\* and one without "name".
Descriptors ==
    { [name |-> "M1", color |-> "green"],
      [name |-> "M1", color |-> "red", provider |-> "pubmed"],
      [name |-> "M0"],
      [color |-> "yellow"] }

Max(S) == CHOOSE x \in S : \A y \in S : y <= x

(***************************************************************************)
(* dict operations                                                         *)
(***************************************************************************)
EmptyDict == <<>>

Has(d, k) == k \in DOMAIN d

\* d.pop(k): the dict without k (the caller reads d[k] first)
Pop(d, k) == [x \in DOMAIN d \ {k} |-> d[x]]

\* d.update(e)
Update(d, e) ==
    [x \in DOMAIN d \cup DOMAIN e |-> IF x \in DOMAIN e THEN e[x] ELSE d[x]]

(***************************************************************************)
(* networkx.DiGraph: node is name -> attribute dict; edge is the list of   *)
(* adjacency entries u -> v in insertion order, each with its attribute    *)
(* "label".                                                                *)
(***************************************************************************)
EmptyGraph == [node |-> EmptyDict, edge |-> <<>>]

Nodes(G) == DOMAIN G.node

EdgeIdx(G, u, v) == {i \in 1..Len(G.edge) : G.edge[i].u = u /\ G.edge[i].v = v}

\* mutant of AddNode: the node's attribute dict is replaced, not updated
AddNodeReplace(G, n, attrs) ==
    [G EXCEPT !.node =
        [m \in Nodes(G) \cup {n} |-> IF m = n THEN attrs ELSE G.node[m]]]

\* g.add_node(n, **attrs)
AddNode(G, n, attrs) ==
    [G EXCEPT !.node =
        [m \in Nodes(G) \cup {n} |->
            IF m = n
            THEN Update(IF n \in Nodes(G) THEN G.node[n] ELSE EmptyDict, attrs)
            ELSE G.node[m]]]

\* mutant of AddEdge: an edge that exists keeps its label
AddEdgeKeepFirst(G, u, v, l) ==
    IF EdgeIdx(G, u, v) # {} THEN G
    ELSE [G EXCEPT !.edge = Append(G.edge, [u |-> u, v |-> v, label |-> l])]

\* mutant of AddEdge: parallel edges, as in a MultiDiGraph
AddEdgeMulti(G, u, v, l) ==
    [G EXCEPT !.edge = Append(G.edge, [u |-> u, v |-> v, label |-> l])]

\* g.add_edge(u, v, label=l)
AddEdge(G, u, v, l) ==
    LET G1 == [G EXCEPT !.node =
                  [m \in Nodes(G) \cup {u, v} |->
                      IF m \in Nodes(G) THEN G.node[m] ELSE EmptyDict]]
    IN  IF EdgeIdx(G, u, v) # {}
        THEN [G1 EXCEPT !.edge =
                 [i \in 1..Len(G.edge) |->
                     IF i \in EdgeIdx(G, u, v)
                     THEN [G.edge[i] EXCEPT !.label = l]
                     ELSE G.edge[i]]]
        ELSE [G1 EXCEPT !.edge = Append(G.edge, [u |-> u, v |-> v, label |-> l])]

\* mutant of LoopBody: the edge goes from parent to child
LoopBodyReversedEdge(G, H, c, l, p) ==
    IF ~Has(H[c], "name")
    THEN [g |-> G, heap |-> H, pc |-> "KeyError"]
    ELSE LET H1 == [H EXCEPT ![c] = Pop(@, "name")]
         IN  IF ~Has(H1[p], "name")
             THEN [g |-> G, heap |-> H1, pc |-> "KeyError"]
             ELSE LET H2 == [H1 EXCEPT ![p] = Pop(@, "name")]
                      G1 == AddNode(G, H[c].name, H2[c])
                      G2 == AddNode(G1, H1[p].name, H2[p])
                  IN  [g |-> AddEdge(G2, H1[p].name, H[c].name, l),
                       heap |-> H2, pc |-> "loop"]

\* mutant of LoopBody: g = networkx.DiGraph() inside the loop
LoopBodyFreshGraph(G, H, c, l, p) ==
    IF ~Has(H[c], "name")
    THEN [g |-> G, heap |-> H, pc |-> "KeyError"]
    ELSE LET H1 == [H EXCEPT ![c] = Pop(@, "name")]
         IN  IF ~Has(H1[p], "name")
             THEN [g |-> G, heap |-> H1, pc |-> "KeyError"]
             ELSE LET H2 == [H1 EXCEPT ![p] = Pop(@, "name")]
                      G1 == AddNode(EmptyGraph, H[c].name, H2[c])
                      G2 == AddNode(G1, H1[p].name, H2[p])
                  IN  [g |-> AddEdge(G2, H[c].name, H1[p].name, l),
                       heap |-> H2, pc |-> "loop"]

\* mutant of LoopBody: the child node is added before the parent's name is
\* popped
LoopBodyEarlyAdd(G, H, c, l, p) ==
    IF ~Has(H[c], "name")
    THEN [g |-> G, heap |-> H, pc |-> "KeyError"]
    ELSE LET H1 == [H EXCEPT ![c] = Pop(@, "name")]
             G1 == AddNode(G, H[c].name, H1[c])
         IN  IF ~Has(H1[p], "name")
             THEN [g |-> G1, heap |-> H1, pc |-> "KeyError"]
             ELSE LET H2 == [H1 EXCEPT ![p] = Pop(@, "name")]
                      G2 == AddNode(G1, H1[p].name, H2[p])
                  IN  [g |-> AddEdge(G2, H[c].name, H1[p].name, l),
                       heap |-> H2, pc |-> "loop"]

\* mutant of LoopBody: the names are read with ['name'], not popped
LoopBodyNoPop(G, H, c, l, p) ==
    IF ~Has(H[c], "name") \/ ~Has(H[p], "name")
    THEN [g |-> G, heap |-> H, pc |-> "KeyError"]
    ELSE LET G1 == AddNode(G, H[c].name, H[c])
             G2 == AddNode(G1, H[p].name, H[p])
         IN  [g |-> AddEdge(G2, H[c].name, H[p].name, l), heap |-> H, pc |-> "loop"]

(***************************************************************************)
(* build_graph: one iteration of the for loop on the tuple (c, l, p) of    *)
(* descriptor objects c and p of heap H.  The result is the new graph, the *)
(* new heap and where the loop goes.                                       *)
(***************************************************************************)
LoopBody(G, H, c, l, p) ==
    IF ~Has(H[c], "name")
    THEN [g |-> G, heap |-> H, pc |-> "KeyError"]
    ELSE LET child_name == H[c].name
             H1 == [H EXCEPT ![c] = Pop(@, "name")]
         IN  IF ~Has(H1[p], "name")
             THEN [g |-> G, heap |-> H1, pc |-> "KeyError"]
             ELSE LET parent_name == H1[p].name
                      H2 == [H1 EXCEPT ![p] = Pop(@, "name")]
                      G1 == AddNode(G, child_name, H2[c])
                      G2 == AddNode(G1, parent_name, H2[p])
                      G3 == AddEdge(G2, child_name, parent_name, l)
                  IN  [g |-> G3, heap |-> H2, pc |-> "loop"]

(***************************************************************************)
(* The iterable `data`: each tuple it yields holds, as child and as        *)
(* parent, a new dict or a dict it has yielded before: the first one or    *)
(* the latest one (the child of the same tuple, for the parent).           *)
(***************************************************************************)
Choices(H) ==
    {[obj |-> o, new |-> <<>>] : o \in {1, Len(H)} \cap (1..Len(H))}
        \cup {[obj |-> Len(H) + 1, new |-> <<d>>] : d \in Descriptors}

Init ==
    /\ g = EmptyGraph
    /\ gPrev = EmptyGraph
    /\ heap = <<>>
    /\ init = <<>>
    /\ log = <<>>
    /\ pc = "loop"
    /\ call = <<>>
    /\ result = <<>>
    /\ doc = <<>>
    /\ gen = <<>>
    /\ queue = <<>>
    /\ sched = <<>>

\* for child_attrs, edge, parent_attrs in data: <loop body>
Step ==
    /\ pc = "loop"
    /\ Len(log) < MaxLen
    /\ \E l \in Labels, cc \in Choices(heap) :
         \E pp \in Choices(heap \o cc.new) :
            LET H == (heap \o cc.new) \o pp.new
                r == LoopBody(g, H, cc.obj, l, pp.obj)
            IN  /\ g' = r.g
                /\ gPrev' = g
                /\ heap' = r.heap
                /\ init' = (init \o cc.new) \o pp.new
                /\ log' = Append(log, <<cc.obj, l, pp.obj>>)
                /\ pc' = r.pc
                /\ UNCHANGED <<resolverVars, pipeVars>>

\* data is exhausted: return g
Return ==
    /\ pc = "loop"
    /\ pc' = "returned"
    /\ UNCHANGED <<g, gPrev, heap, init, log>>
    /\ UNCHANGED <<resolverVars, pipeVars>>

Next == Step \/ Return

Spec == Init /\ [][Next]_vars

(***************************************************************************)
(* Python str: a sequence of character codes.  None or a value: <<>> or    *)
(* <<value>>.                                                              *)
(***************************************************************************)
None == <<>>

Some(x) == <<x>>

\* c.lower() of one ASCII character
LowerChar(c) == IF c \in 65..90 THEN c + 32 ELSE c

\* s.lower()
Lower(s) == [i \in 1..Len(s) |-> LowerChar(s[i])]

\* s < t, the order of Python str
RECURSIVE StrLess(_, _)
StrLess(s, t) ==
    IF t = <<>> THEN FALSE
    ELSE IF s = <<>> THEN TRUE
    ELSE IF s[1] # t[1] THEN s[1] < t[1]
    ELSE StrLess(Tail(s), Tail(t))

\* s.split('/')[-1]
LastSegment(s) ==
    LET slashes == {i \in 1..Len(s) : s[i] = 47}
    IN  IF slashes = {} THEN s ELSE SubSeq(s, Max(slashes) + 1, Len(s))

\* the strings over alphabet A of length 1..n
Strings(A, n) == UNION {[1..k -> A] : k \in 1..n}

(***************************************************************************)
(* difflib.SequenceMatcher(a, b) without junk (autojunk needs 200          *)
(* elements).  Positions are 1-based; a range lo..hi-1 is given by lo, hi. *)
(***************************************************************************)
\* the block of blocks that is longest; of the longest, the one earliest in
\* a; of those, the one earliest in b; <<alo, blo, 0>> when there is none
BestBlock(blocks, alo, blo) ==
    IF blocks = {} THEN <<alo, blo, 0>>
    ELSE CHOOSE s \in blocks : \A t \in blocks \ {s} :
            \/ s[3] > t[3]
            \/ s[3] = t[3] /\ s[1] < t[1]
            \/ s[3] = t[3] /\ s[1] = t[1] /\ s[2] < t[2]

\* find_longest_match: over the blocks a[i..i+k-1] = b[j..j+k-1]
LongestMatch(a, b, alo, ahi, blo, bhi) ==
    BestBlock({t \in (alo..(ahi - 1)) \X (blo..(bhi - 1)) \X (1..(ahi - alo)) :
                  /\ t[1] + t[3] <= ahi
                  /\ t[2] + t[3] <= bhi
                  /\ \A d \in 0..(t[3] - 1) : a[t[1] + d] = b[t[2] + d]},
              alo, blo)

\* get_matching_blocks: the total size of the blocks found by splitting
\* around the longest match m, left and right
RECURSIVE MatchSize(_, _, _, _, _, _)
SplitAround(a, b, alo, ahi, blo, bhi, m) ==
    IF m[3] = 0 THEN 0
    ELSE m[3] + MatchSize(a, b, alo, m[1], blo, m[2])
              + MatchSize(a, b, m[1] + m[3], ahi, m[2] + m[3], bhi)

MatchSize(a, b, alo, ahi, blo, bhi) ==
    SplitAround(a, b, alo, ahi, blo, bhi, LongestMatch(a, b, alo, ahi, blo, bhi))

\* ratio() = 2.0 * matches / length, 1.0 when both are empty: <<num, den>>
Ratio(a, b) ==
    IF Len(a) + Len(b) = 0 THEN <<1, 1>>
    ELSE <<2 * MatchSize(a, b, 1, Len(a) + 1, 1, Len(b) + 1), Len(a) + Len(b)>>

RatioLess(r, s) == r[1] * s[2] < s[1] * r[2]

\* cutoff=0.8
CutoffNum == 8
CutoffDen == 10

\* ratio >= cutoff
AtLeastCutoff(r) == r[1] * CutoffDen >= CutoffNum * r[2]

\* (rx, x) > (ry, y), the order of the (score, candidate) pairs
PairLarger(rx, x, ry, y) == RatioLess(ry, rx) \/ (~RatioLess(rx, ry) /\ StrLess(y, x))

\* heapq.nlargest(1, result): the largest (score, x)
Largest(close, word) ==
    IF close = {} THEN <<>>
    ELSE <<CHOOSE x \in close : \A y \in close \ {x} :
               PairLarger(Ratio(x, word), x, Ratio(y, word), y)>>

\* difflib.get_close_matches(word, possibilities, n=1, cutoff=0.8): of the
\* candidates x with SequenceMatcher(x, word).ratio() >= cutoff
GetCloseMatches(word, possibilities) ==
    Largest({x \in possibilities : AtLeastCutoff(Ratio(x, word))}, word)

(***************************************************************************)
(* A compartment tag: attrs is the dict of its attributes; li is None when *)
(* the tag has no rdf:li descendant, else the attribute dict of the first. *)
(***************************************************************************)
Returned(v) == [exc |-> "none", val |-> Some(v)]

Raised(e) == [exc |-> e, val |-> None]

\* BioModels.tools.get_go_json(go_id), then ['response']['docs']: the
\* documents of the lookup service's answer, or ValueError for an
\* identifier it does not take
GetGoJson(go_id, lookup) == lookup

\* _get_go_id(compartment_tag)
GetGoId(tag) ==
    IF tag.li = None
    THEN Returned(None)                       \* None['rdf:resource']: TypeError, caught
    ELSE IF ~Has(tag.li[1], "rdf:resource")
    THEN Raised("KeyError")                   \* Tag.__getitem__
    ELSE Returned(Some(LastSegment(tag.li[1]["rdf:resource"])))

\* close_matches[0] if close_matches else name
FirstOr(close_matches, name) ==
    Returned(IF close_matches # <<>> THEN close_matches[1] ELSE name)

\* the except branch of _get_name
CloseMatchOrName(tag, all_go_compartments) ==
    IF Has(tag.attrs, "name")
    THEN FirstOr(GetCloseMatches(Lower(tag.attrs.name), all_go_compartments),
                 tag.attrs.name)
    ELSE IF Has(tag.attrs, "id")
    THEN FirstOr(GetCloseMatches(Lower(tag.attrs.id), all_go_compartments),
                 tag.attrs.id)
    ELSE Raised("KeyError")

\* get_go_json(go_id)['response']['docs'][0]['annotation_class_label']
FirstLabel(docs) ==
    IF docs.val = <<>> THEN Raised("IndexError")
    ELSE Returned(docs.val[1].annotation_class_label)

\* _get_name(compartment_tag, all_go_compartments), go_id being what
\* _get_go_id(compartment_tag) came to
GetNameWith(go_id, tag, all_go_compartments, lookup) ==
    IF go_id.exc # "none" THEN go_id                          \* KeyError: not caught
    ELSE IF go_id.val[1] = None \/ go_id.val[1] = Some(<<>>)  \* assert go_id
    THEN CloseMatchOrName(tag, all_go_compartments)
    ELSE IF GetGoJson(go_id.val[1][1], lookup).exc = "ValueError"
    THEN CloseMatchOrName(tag, all_go_compartments)
    ELSE FirstLabel(GetGoJson(go_id.val[1][1], lookup))

GetName(tag, all_go_compartments, lookup) ==
    GetNameWith(GetGoId(tag), tag, all_go_compartments, lookup)

(***************************************************************************)
(* The calls of _get_name.                                                 *)
(***************************************************************************)
MaxNameLen == 3
MaxRefs == 2

\* 'a', 'b', 'A'
NameChars == {97, 98, 65}

\* "Ab"
IdStrings == {<<65, 98>>}

\* "g/G", "g/" and "G": an identifier URI, one that ends in '/', a bare id
Resources == {<<103, 47, 71>>, <<103, 47>>, <<71>>}

\* "Aa"
GoLabels == {<<65, 97>>}

TagAttrs ==
    [name : Strings(NameChars, MaxNameLen), id : IdStrings]
        \cup {[name |-> n] : n \in Strings(NameChars, MaxNameLen)}
        \cup {[id |-> i] : i \in IdStrings}
        \cup {EmptyDict}

TagLis ==
    {None, Some(EmptyDict)} \cup {Some([x \in {"rdf:resource"} |-> r]) : r \in Resources}

Tags == [attrs : TagAttrs, li : TagLis]

\* all_go_compartments: canonical (lower-case) names
ReferenceSets ==
    {R \in SUBSET Strings({97, 98}, MaxNameLen) : Cardinality(R) <= MaxRefs}

Lookups ==
    {Raised("ValueError"), [exc |-> "none", val |-> <<>>]}
        \cup {[exc |-> "none", val |-> <<[annotation_class_label |-> l]>>] : l \in GoLabels}

InitResolver ==
    /\ g = EmptyGraph
    /\ gPrev = EmptyGraph
    /\ heap = <<>>
    /\ init = <<>>
    /\ log = <<>>
    /\ pc = "idle"
    /\ call \in [tag : Tags, refs : ReferenceSets, lookup : Lookups]
    /\ result = <<>>
    /\ doc = <<>>
    /\ gen = <<>>
    /\ queue = <<>>
    /\ sched = <<>>

Resolve ==
    /\ call # <<>>
    /\ result = <<>>
    /\ result' = <<GetName(call.tag, call.refs, call.lookup)>>
    /\ UNCHANGED call
    /\ UNCHANGED <<buildVars, pipeVars>>

NextResolver == Resolve

SpecResolver == InitResolver /\ [][NextResolver]_vars

(***************************************************************************)
(* The generators parse_mcmp_model, parse_derived_model and                *)
(* parse_species_data.                                                     *)
(***************************************************************************)
Min(S) == CHOOSE x \in S : \A y \in S : x <= y

\* s.split(ch)[0], ch one character
FirstSegment(s, ch) ==
    LET at == {i \in 1..Len(s) : s[i] = ch}
    IN  IF at = {} THEN s ELSE SubSeq(s, 1, Min(at) - 1)

\* s.split(sep)[-1], sep a string that does not overlap itself
AfterLast(s, sep) ==
    LET at == {i \in 1..(Len(s) - Len(sep) + 1) : SubSeq(s, i, i + Len(sep) - 1) = sep}
    IN  IF at = {} THEN s ELSE SubSeq(s, Max(at) + Len(sep), Len(s))

\* sep.join(parts)
RECURSIVE Join(_, _)
Join(sep, parts) ==
    IF parts = <<>> THEN <<>>
    ELSE IF Len(parts) = 1 THEN parts[1]
    ELSE parts[1] \o sep \o Join(sep, Tail(parts))

\* 'http://identifiers.org/'
IDENTIFIERS_ORG ==
    <<104, 116, 116, 112, 58, 47, 47, 105, 100, 101, 110, 116, 105, 102, 105,
      101, 114, 115, 46, 111, 114, 103, 47>>

\* 'biomodels.db'
BIOMODELS_DB == <<98, 105, 111, 109, 111, 100, 101, 108, 115, 46, 100, 98>>

\* 'pubmed'
PUBMED == <<112, 117, 98, 109, 101, 100>>

\* str(basename(sbml_file.name).split('.')[0])
ModelName(d) == FirstSegment(d.file, 46)

\* 'http://identifiers.org/biomodels.db/' + model_name
ModelURI(d) == IDENTIFIERS_ORG \o BIOMODELS_DB \o <<47>> \o ModelName(d)

\* mutant of NewDict: the dict the variable held is filled again
ReuseDict(H, old) == IF old = 0 THEN Len(H) + 1 ELSE old

\* A dict display {...} makes a new object, whatever dict the variable it
\* is assigned to held before (old; 0 when the variable is unbound).
NewDict(H, old) == Len(H) + 1

\* the heap with dict d as object o
Store(H, o, d) == IF o = Len(H) + 1 THEN Append(H, d) ELSE [H EXCEPT ![o] = d]

NoFrame == [first |-> 0, second |-> 0]

GenRaise(e, H, fr) == [exc |-> e, heap |-> H, frame |-> fr, tuple |-> <<>>]

\* compartment_data: the dict display, then ['identifier'] = go_id
CompartmentData(name, go_id) ==
    IF go_id # None /\ go_id # Some(<<>>)
    THEN Update([name |-> Lower(name), color |-> "yellow"], [identifier |-> go_id[1]])
    ELSE [name |-> Lower(name), color |-> "yellow"]

\* model_data
ModelData(d) ==
    [name |-> ModelName(d), provider |-> BIOMODELS_DB, URI |-> ModelURI(d),
     created |-> d.created, color |-> "green"]

\* the tuple is yielded: the new heap, the frame and the tuple
Yield(H, first, second, tuple) ==
    [exc |-> "none", heap |-> H, frame |-> [first |-> first, second |-> second],
     tuple |-> tuple]

\* parse_mcmp_model: the body of `for compartment_tag in compartment_tags`;
\* frame.first is compartment_data, frame.second is model_data.  The body
\* runs _get_name, makes compartment_data, makes model_data, sets the
\* identifier (_get_go_id raises nothing that _get_name has not raised
\* before) and yields.
McmpYield(d, H1, compartment_data, model_data) ==
    Yield(Store(H1, model_data, ModelData(d)), compartment_data, model_data,
          <<model_data, "isPartOf", compartment_data>>)

McmpModel(d, H1, fr, compartment_data) ==
    McmpYield(d, H1, compartment_data, NewDict(H1, fr.second))

McmpCompartment(d, tag, H, fr, name, compartment_data) ==
    McmpModel(d, Store(H, compartment_data,
                       CompartmentData(name, GetGoId(tag).val[1])),
              fr, compartment_data)

McmpNamed(d, tag, H, fr, nm) ==
    IF nm.exc # "none" THEN GenRaise(nm.exc, H, fr)
    ELSE McmpCompartment(d, tag, H, fr, nm.val[1], NewDict(H, fr.first))

McmpBody(d, item, H, fr) ==
    McmpNamed(d, item.tag, H, fr, GetName(item.tag, d.refs, item.lookup))

\* parse_derived_model: the body of `for parent_URI in _extract_parent_URIs`;
\* frame.first is child_data, frame.second is parent_data
DerivedBody(d, parent_URI, H, fr) ==
    LET parent_name == LastSegment(AfterLast(parent_URI, IDENTIFIERS_ORG))
        parent_provider == FirstSegment(AfterLast(parent_URI, IDENTIFIERS_ORG), 47)
        child_data == NewDict(H, fr.first)
        H1 == Store(H, child_data,
                    [name |-> ModelName(d), provider |-> BIOMODELS_DB,
                     URI |-> ModelURI(d), created |-> d.created])
        parent_data == NewDict(H1, fr.second)
        H2 == Store(H1, parent_data,
                    [name |-> parent_name, provider |-> parent_provider,
                     URI |-> parent_URI])
        H3 == IF H2[parent_data].provider \in {BIOMODELS_DB, PUBMED}
              THEN [H2 EXCEPT ![parent_data] =
                       Update(@, [color |-> IF H2[parent_data].provider = PUBMED
                                            THEN "red" ELSE "green"])]
              ELSE H2
        H4 == [H3 EXCEPT ![child_data] = Update(@, [color |-> "green"])]
    IN  Yield(H4, child_data, parent_data,
              <<child_data, "isDerivedFrom", parent_data>>)

\* parse_species_data: the body of `for species in ...getListOfSpecies()`;
\* frame.first is model_data, frame.second is species_data
SpeciesBody(d, species, H, fr) ==
    LET species_name == IF species.name # <<>> THEN species.name ELSE species.id
        model_data == NewDict(H, fr.first)
        H1 == Store(H, model_data, ModelData(d))
        species_data == NewDict(H1, fr.second)
        H2 == Store(H1, species_data,
                    [name |-> species_name,
                     identifiers |-> Join(<<44, 32>>, species.resources),
                     color |-> "blue"])
    IN  Yield(H2, model_data, species_data,
              <<species_data, "isContainedIn", model_data>>)

GenStart == [pc |-> "suspended", i |-> 0, frame |-> NoFrame]

\* next(generator): the generator runs to its next yield, to its end or to
\* an exception
GenResume(d, G, H) ==
    IF d.policy = "mcmp" /\ Len(d.items) < 2 /\ d.skip
    THEN [gen |-> [G EXCEPT !.pc = "exhausted"], heap |-> H, yielded |-> <<>>]
    ELSE IF G.i = Len(d.items)
    THEN [gen |-> [G EXCEPT !.pc = "exhausted"], heap |-> H, yielded |-> <<>>]
    ELSE LET b == CASE d.policy = "mcmp" -> McmpBody(d, d.items[G.i + 1], H, G.frame)
                    [] d.policy = "derived" -> DerivedBody(d, d.items[G.i + 1], H, G.frame)
                    [] d.policy = "species" -> SpeciesBody(d, d.items[G.i + 1], H, G.frame)
         IN  IF b.exc # "none"
             THEN [gen |-> [pc |-> "raised", i |-> G.i, frame |-> b.frame],
                   heap |-> b.heap, yielded |-> <<>>]
             ELSE [gen |-> [pc |-> "suspended", i |-> G.i + 1, frame |-> b.frame],
                   heap |-> b.heap, yielded |-> <<b.tuple>>]

(***************************************************************************)
(* The documents.                                                          *)
(***************************************************************************)
MaxItems == 3

SeqsUpTo(S, n) == UNION {[1..k -> S] : k \in 0..n}

\* a compartment "Ab" without annotation; a compartment "b" annotated "g/G"
\* that the lookup knows as "Aa"; one annotated "g/G" that the lookup
\* rejects; a compartment "a" whose rdf:li has no rdf:resource
CompartmentItems ==
    { [tag |-> [attrs |-> [name |-> <<65, 98>>], li |-> None],
       lookup |-> Raised("ValueError")],
      [tag |-> [attrs |-> [id |-> <<98>>],
                li |-> Some([x \in {"rdf:resource"} |-> <<103, 47, 71>>])],
       lookup |-> [exc |-> "none",
                   val |-> <<[annotation_class_label |-> <<65, 97>>]>>]],
      [tag |-> [attrs |-> [name |-> <<97, 98, 98>>],
                li |-> Some([x \in {"rdf:resource"} |-> <<103, 47, 71>>])],
       lookup |-> Raised("ValueError")],
      [tag |-> [attrs |-> [name |-> <<97>>], li |-> Some(EmptyDict)],
       lookup |-> Raised("ValueError")] }

\* 'http://identifiers.org/biomodels.db/B2', 'http://identifiers.org/pubmed/P7'
\* and 'kegg/B1'
ParentURIs ==
    { IDENTIFIERS_ORG \o BIOMODELS_DB \o <<47, 66, 50>>,
      IDENTIFIERS_ORG \o PUBMED \o <<47, 80, 55>>,
      <<107, 101, 103, 103, 47, 66, 49>> }

\* species "s1"; a species without name, id "i1", two annotations; a species
\* named like the model
SpeciesItems ==
    { [name |-> <<115, 49>>, id |-> <<105, 49>>, resources |-> <<>>],
      [name |-> <<>>, id |-> <<105, 49>>, resources |-> <<<<103, 47, 71>>, <<71>>>>],
      [name |-> <<66, 49>>, id |-> <<105, 49>>, resources |-> <<<<71>>>>] }

\* 'B1.xml', created '2005-04-11', all_go_compartments {'ab'}
DocOf(p, its, sk) ==
    [policy |-> p, file |-> <<66, 49, 46, 120, 109, 108>>,
     created |-> <<50, 48, 48, 53, 45, 48, 52, 45, 49, 49>>,
     items |-> its, refs |-> {<<97, 98>>}, skip |-> sk]

Docs ==
    {DocOf("mcmp", its, sk) : its \in SeqsUpTo(CompartmentItems, MaxItems),
                              sk \in BOOLEAN}
        \cup {DocOf("derived", its, TRUE) : its \in SeqsUpTo(ParentURIs, MaxItems)}
        \cup {DocOf("species", its, TRUE) : its \in SeqsUpTo(SpeciesItems, MaxItems)}

(***************************************************************************)
(* build_graph(parser(document)): the generator is resumed any number of   *)
(* tuples ahead of build_graph's loop.                                     *)
(***************************************************************************)
InitPipeline ==
    /\ g = EmptyGraph
    /\ gPrev = EmptyGraph
    /\ heap = <<>>
    /\ init = <<>>
    /\ log = <<>>
    /\ pc = "loop"
    /\ call = <<>>
    /\ result = <<>>
    /\ doc \in Docs
    /\ gen = GenStart
    /\ queue = <<>>
    /\ sched = <<>>

\* the generator is resumed
GenNext ==
    /\ pc = "loop"
    /\ gen.pc = "suspended"
    /\ LET r == GenResume(doc, gen, heap)
       IN  /\ gen' = r.gen
           /\ heap' = r.heap
           /\ queue' = queue \o r.yielded
    /\ sched' = Append(sched, "gen")
    /\ UNCHANGED <<g, gPrev, init, log, pc, doc, resolverVars>>

\* build_graph's loop takes the next tuple
Pull ==
    /\ pc = "loop"
    /\ queue # <<>>
    /\ LET r == LoopBody(g, heap, queue[1][1], queue[1][2], queue[1][3])
       IN  /\ g' = r.g
           /\ heap' = r.heap
           /\ pc' = r.pc
    /\ gPrev' = g
    /\ log' = Append(log, queue[1])
    /\ queue' = Tail(queue)
    /\ sched' = Append(sched, "fold")
    /\ UNCHANGED <<init, doc, gen, resolverVars>>

\* the stream has ended: return g
PipelineReturn ==
    /\ pc = "loop"
    /\ gen.pc = "exhausted"
    /\ queue = <<>>
    /\ pc' = "returned"
    /\ UNCHANGED <<g, gPrev, heap, init, log, pipeVars, resolverVars>>

\* the generator's exception reaches the caller
PipelineRaise ==
    /\ pc = "loop"
    /\ gen.pc = "raised"
    /\ pc' = "GenError"
    /\ UNCHANGED <<g, gPrev, heap, init, log, pipeVars, resolverVars>>

NextPipeline == GenNext \/ Pull \/ PipelineReturn \/ PipelineRaise

SpecPipeline == InitPipeline /\ [][NextPipeline]_vars

\* The whole stream first (list(generator)), build_graph afterwards.
RECURSIVE ProduceAll(_, _, _, _)
ProduceAll(d, G, H, q) ==
    IF G.pc # "suspended" THEN [gen |-> G, heap |-> H, queue |-> q]
    ELSE LET r == GenResume(d, G, H)
         IN  ProduceAll(d, r.gen, r.heap, q \o r.yielded)

RECURSIVE FoldAll(_, _, _)
FoldAll(G, H, q) ==
    IF q = <<>> THEN [pc |-> "returned", g |-> G]
    ELSE LET r == LoopBody(G, H, q[1][1], q[1][2], q[1][3])
         IN  IF r.pc # "loop" THEN [pc |-> r.pc, g |-> r.g]
             ELSE FoldAll(r.g, r.heap, Tail(q))

Batch(d) ==
    LET p == ProduceAll(d, GenStart, <<>>, <<>>)
    IN  IF p.gen.pc = "raised" THEN [pc |-> "GenError", g |-> EmptyGraph]
        ELSE FoldAll(EmptyGraph, p.heap, p.queue)

(***************************************************************************)
(* What the history says of the stream.                                    *)
(***************************************************************************)
\* the tuples whose loop body ran to its end
NFolded == IF pc = "KeyError" THEN Len(log) - 1 ELSE Len(log)

ChildOf(i) == log[i][1]
LabelOf(i) == log[i][2]
ParentOf(i) == log[i][3]
ChildName(i) == init[ChildOf(i)].name
ParentName(i) == init[ParentOf(i)].name

SamePair(i, j) == ChildName(i) = ChildName(j) /\ ParentName(i) = ParentName(j)

\* the last folded tuple with the (child_name, parent_name) of tuple i
LastWithPair(i) ==
    CHOOSE j \in i..NFolded :
        SamePair(i, j) /\ \A k \in (j + 1)..NFolded : ~SamePair(i, k)

\* The descriptors of the folded tuples in processing order: mention 2i-1
\* is the child of tuple i, mention 2i its parent.
MentionObj(m) == IF m % 2 = 1 THEN ChildOf((m + 1) \div 2) ELSE ParentOf(m \div 2)
MentionName(m) == init[MentionObj(m)].name
MentionAttrs(m) == Pop(init[MentionObj(m)], "name")
Mentions == 1..(2 * NFolded)

AttrKeys == UNION {DOMAIN d : d \in Descriptors} \ {"name"}

EdgePairs(G) == {<<G.edge[i].u, G.edge[i].v>> : i \in 1..Len(G.edge)}

\* tuple i had, when the iterable yielded it, a descriptor without "name"
Nameless(i) == ~Has(init[ChildOf(i)], "name") \/ ~Has(init[ParentOf(i)], "name")

\* the places (tuple, side) of the pulled tuples that hold object o
Occurrences(o) ==
    {<<i, s>> \in (1..Len(log)) \X {1, 3} : log[i][s] = o}

(***************************************************************************)
(* C1 (as stated): in the returned graph every tuple of the stream has its *)
(* child node, its parent node and an edge child -> parent that carries    *)
(* that tuple's own label.                                                 *)
(***************************************************************************)
C1_EveryTupleKeepsItsLabel ==
    pc = "returned" =>
        \A i \in 1..Len(log) :
            /\ ChildName(i) \in Nodes(g)
            /\ ParentName(i) \in Nodes(g)
            /\ \E e \in 1..Len(g.edge) :
                   g.edge[e] = [u |-> ChildName(i), v |-> ParentName(i),
                                label |-> LabelOf(i)]

(***************************************************************************)
(* C1 (amended): in the returned graph every tuple of the stream has its   *)
(* child node, its parent node and an edge child -> parent, whose label is *)
(* the label of the last tuple of the stream with that (child, parent).    *)
(***************************************************************************)
C1_Completeness ==
    pc = "returned" =>
        \A i \in 1..Len(log) :
            /\ ChildName(i) \in Nodes(g)
            /\ ParentName(i) \in Nodes(g)
            /\ \E e \in 1..Len(g.edge) :
                   g.edge[e] = [u |-> ChildName(i), v |-> ParentName(i),
                                label |-> LabelOf(LastWithPair(i))]

C1_Witness ==
    /\ pc = "returned"
    /\ \E i, j \in 1..Len(log) : i < j /\ SamePair(i, j) /\ LabelOf(i) # LabelOf(j)
    /\ \E i, j \in 1..Len(log) : ~SamePair(i, j)

C3_AttributeMerge ==
    /\ Nodes(g) = {MentionName(m) : m \in Mentions}
    /\ \A n \in Nodes(g) : \A k \in AttrKeys :
          LET S == {m \in Mentions : MentionName(m) = n /\ Has(MentionAttrs(m), k)}
          IN  /\ Has(g.node[n], k) <=> S # {}
              /\ S # {} => g.node[n][k] = MentionAttrs(Max(S))[k]

\* a node keeps a key that a later descriptor of the same name, carrying
\* another key, does not mention
C3_Witness ==
    \E m1, m2 \in Mentions : \E k \in AttrKeys :
        /\ m1 < m2
        /\ MentionName(m1) = MentionName(m2)
        /\ Has(MentionAttrs(m1), k) /\ ~Has(MentionAttrs(m2), k)
        /\ MentionAttrs(m2) # EmptyDict
        /\ Has(g.node[MentionName(m1)], k)

(***************************************************************************)
(* C4: folding a tuple and then a tuple of the same content (child         *)
(* descriptor, label and parent descriptor equal, held in dicts of their   *)
(* own) leaves the graph as the first fold left it: nodes, node            *)
(* attributes, edges and edge labels.                                      *)
(***************************************************************************)
SameContent(i, j) ==
    /\ init[ChildOf(i)] = init[ChildOf(j)]
    /\ LabelOf(i) = LabelOf(j)
    /\ init[ParentOf(i)] = init[ParentOf(j)]

C4_Idempotent ==
    (pc = "loop" /\ Len(log) >= 2 /\ SameContent(Len(log) - 1, Len(log)))
        => g = gPrev

\* the repeated tuple follows a non-empty prefix
C4_Witness ==
    pc = "loop" /\ Len(log) >= 3 /\ SameContent(Len(log) - 1, Len(log))
        /\ ~SameContent(1, Len(log))

(***************************************************************************)
(* C5: every step of build_graph leaves every edge with both endpoints in  *)
(* the node set, and removes no node and no edge.                          *)
(***************************************************************************)
C5_EndpointsAndNoRemoval ==
    [][ /\ \A e \in EdgePairs(g') : e[1] \in Nodes(g') /\ e[2] \in Nodes(g')
        /\ Nodes(g) \subseteq Nodes(g')
        /\ EdgePairs(g) \subseteq EdgePairs(g') ]_vars

C5_Witness ==
    Len(log) >= 2 /\ pc = "returned" /\ Cardinality(EdgePairs(g)) >= 2

(***************************************************************************)
(* C6: a tuple with a descriptor that has no "name" ends build_graph with  *)
(* the missing-key error: no graph is returned, the graph is as it was     *)
(* before that tuple, and no tuple is pulled after it.                     *)
(***************************************************************************)
C6_MissingNameIsFatal ==
    \A i \in 1..Len(log) :
        Nameless(i) => /\ pc = "KeyError"
                       /\ i = Len(log)
                       /\ g = gPrev

\* the child has a name, the parent has not, after a folded tuple
C6_Witness ==
    /\ Len(log) >= 2
    /\ Has(init[ChildOf(Len(log))], "name")
    /\ ~Has(init[ParentOf(Len(log))], "name")
    /\ ChildOf(Len(log)) # ParentOf(Len(log))
    /\ pc = "KeyError"

(***************************************************************************)
(* C10: build_graph changes a descriptor only by removing "name": every    *)
(* other key keeps its value, the child and parent of every folded tuple   *)
(* have lost "name", and a descriptor object that occurs a second time in  *)
(* the stream makes build_graph fail with the missing-key error.           *)
(***************************************************************************)
C10_OnlyNameRemoved ==
    /\ \A o \in 1..Len(heap) :
          /\ Pop(heap[o], "name") = Pop(init[o], "name")
          /\ Has(heap[o], "name") => heap[o] = init[o]
          /\ (\E i \in 1..NFolded : o \in {ChildOf(i), ParentOf(i)})
                => ~Has(heap[o], "name")
          /\ Cardinality(Occurrences(o)) >= 2 => pc = "KeyError"

\* an object of an earlier tuple comes back, and one is child and parent
C10_Witness ==
    /\ pc = "KeyError"
    /\ \E o \in 1..Len(heap) :
          /\ Has(init[o], "name")
          /\ DOMAIN init[o] # {"name"}
          /\ \E i, j \in 1..Len(log) : i < j /\ o \in {ChildOf(i), ParentOf(i)}
                                             /\ o \in {ChildOf(j), ParentOf(j)}

(***************************************************************************)
(* What a call of _get_name was given.                                     *)
(***************************************************************************)
\* the tag declares a name or an id
Declares(tag) == Has(tag.attrs, "name") \/ Has(tag.attrs, "id")

\* its name, or its id when it declares no name
Declared(tag) == IF Has(tag.attrs, "name") THEN tag.attrs.name ELSE tag.attrs.id

\* the tag carries an identifier annotation: an rdf:li with a resource
\* whose last path segment is not empty
HasIdentifier(tag) ==
    /\ tag.li # None
    /\ Has(tag.li[1], "rdf:resource")
    /\ LastSegment(tag.li[1]["rdf:resource"]) # <<>>

\* the lookup answers with at least one document
LookupSucceeds(lookup) == lookup.exc = "none" /\ lookup.val # <<>>

\* the members of refs at least 0.8 similar to word, and the closest of them
AboveFloor(word, refs) ==
    {x \in refs : 10 * Ratio(x, word)[1] >= 8 * Ratio(x, word)[2]}

Closest(word, refs) ==
    {x \in AboveFloor(word, refs) :
        \A y \in AboveFloor(word, refs) : ~RatioLess(Ratio(x, word), Ratio(y, word))}

(***************************************************************************)
(* C7: for a tag that declares a name or an id, _get_name raises nothing   *)
(* and returns a non-empty string, whatever the annotation and the lookup. *)
(***************************************************************************)
C7_NeverRaises ==
    (result # <<>> /\ Declares(call.tag))
        => /\ result[1].exc = "none"
           /\ result[1].val # None
           /\ result[1].val[1] # <<>>

(***************************************************************************)
(* C8: for a tag that declares a name or an id, _get_name returns the      *)
(* lookup's label when the tag has an identifier and the lookup succeeds;  *)
(* otherwise a closest member of the reference set at least 0.8 similar to *)
(* the lower-cased declared name; otherwise the declared name verbatim.    *)
(***************************************************************************)
C8_ResolverChain ==
    (result # <<>> /\ Declares(call.tag))
        => /\ result[1].exc = "none"
           /\ IF HasIdentifier(call.tag) /\ LookupSucceeds(call.lookup)
              THEN result[1].val[1] = call.lookup.val[1].annotation_class_label
              ELSE IF AboveFloor(Lower(Declared(call.tag)), call.refs) # {}
              THEN result[1].val[1] \in Closest(Lower(Declared(call.tag)), call.refs)
              ELSE result[1].val[1] = Declared(call.tag)

\* the tuples the generator has yielded so far
Yielded == log \o queue

(***************************************************************************)
(* C9: the descriptors of the yielded tuples are dicts of their own, and   *)
(* however the resumptions of the generator and the iterations of      *)
(* build_graph's loop are interleaved, build_graph ends as it ends when    *)
(* the whole stream is produced first and folded afterwards: with the same *)
(* graph, or with the same exception.                                      *)
(***************************************************************************)
C9_InterleavingIsBatch ==
    /\ \A i, j \in 1..Len(Yielded) : \A a, b \in {1, 3} :
          Yielded[i][a] = Yielded[j][b] => (i = j /\ a = b)
    /\ pc \in {"returned", "KeyError", "GenError"}
          => /\ pc = Batch(doc).pc
             /\ pc = "returned" => g = Batch(doc).g

\* three tuples, each folded before the next is produced
C9_Witness ==
    /\ pc = "returned"
    /\ sched = <<"gen", "fold", "gen", "fold", "gen", "fold", "gen">>
    /\ Cardinality(Nodes(g)) >= 3

====
